---- MODULE Spec2Model ----
(***************************************************************************)
(* LRUCache of src/src/lru/mod.rs: a hash index over a doubly linked list  *)
(* of heap nodes bounded by two sentinel nodes.  The heap is modelled      *)
(* explicitly (node ids, allocation, release) because the code handles the *)
(* nodes through raw pointers.                                             *)
(***************************************************************************)
EXTENDS Integers, Sequences, FiniteSets

\* ------------------------------------------------------------------ bounds
MaxKey == 3
MaxVal == 2
MaxCap == 2
\* The calls made on one cache.
MaxCalls == 5

Keys   == 1..MaxKey
Values == 1..MaxVal
Caps   == 0..MaxCap

\* Option::None, for keys, values, pointers and the hash index alike.
None == -1

\* Heap nodes.  The two sentinels take two ids and every key can own one; the
\* others stand for the released nodes that dangling pointers still designate.
NodeIds == 0..(MaxKey + 3)

VARIABLES
    mem,        \* heap: node id -> Node {key, value, prev, next}
    alive,      \* the node ids that are allocated (Box::into_raw, not yet Box::from_raw)
    hashmap,    \* LRUCache.hashmap: key -> node id, None when the key is absent
    cap,        \* LRUCache.cap
    len,        \* LRUCache.len
    head,       \* LRUCache.head
    tail,       \* LRUCache.tail
    pc,         \* "run", or how the program stopped: "panicked", "ub", "dropped"
    ret,        \* the value the last call returned
    lastOp,     \* the last call: its name, its arguments, whether the key was present
    calls,      \* the number of calls made so far
    released,   \* the nodes that the drop of the cache released, in order
    touched     \* history: the keys of the index, most recently touched (add, get hit) first

vars == <<mem, alive, hashmap, cap, len, head, tail, pc, ret, lastOp, calls, released, touched>>

\* ------------------------------------------------------------- data types
\* struct Node: the content of a block that holds no node is blank.
Node(k, v, p, n) == [key |-> k, value |-> v, prev |-> p, next |-> n]

Blank == Node(None, None, None, None)

\* Return values: Option::None, Some(v), Some((k, v)).
RetNone == <<>>

Some(v) == <<v>>

SomePair(k, v) == <<k, v>>

\* A call's outcome: how it ended and the cache it leaves.
Outcome(st, m, a, h, l, r) ==
    [st |-> st, mem |-> m, alive |-> a, hashmap |-> h, len |-> l, ret |-> r]

\* Box::from_raw + drop: the block is released and its content is gone.
Free(m, n) == [m EXCEPT ![n] = Blank]

\* Keys of the index.
LiveKeys(h) == {k \in Keys : h[k] # None}

\* ------------------------------------------------------------ LRUCache::new
new(c) ==
    /\ head = 0
    /\ tail = 1
    /\ mem = [n \in NodeIds |->
                 IF n = 0 THEN Node(None, None, None, 1)
                 ELSE IF n = 1 THEN Node(None, None, 0, None)
                 ELSE Blank]
    /\ alive = {0, 1}
    /\ hashmap = [k \in Keys |-> None]
    /\ cap = c
    /\ len = 0

\* ------------------------------------------------------------ LRUCache::add
\* The eviction without the removal of the key from the index.
Evict_keeping_index(m, a, h, l) ==
    LET last_entry == m[tail].prev IN
    IF last_entry = None THEN Outcome("panic", m, a, h, l, RetNone)
    ELSE IF last_entry \notin a THEN Outcome("ub", m, a, h, l, RetNone)
    ELSE IF m[last_entry].key = None \/ m[last_entry].value = None
              \/ m[last_entry].prev = None
         THEN Outcome("panic", m, a, h, l, RetNone)
    ELSE
    LET key       == m[last_entry].key
        value     == m[last_entry].value
        last_prev == m[last_entry].prev
        m1 == [m EXCEPT ![tail].prev = last_prev]
    IN  IF last_prev \notin a THEN Outcome("ub", m1, a, h, l, RetNone)
        ELSE
        LET m2 == [m1 EXCEPT ![last_prev].next = tail]
        IN  Outcome("ok", Free(m2, last_entry), a \ {last_entry}, h, l,
                    SomePair(key, value))

\* Lines 104-119: the eviction of the node before the tail sentinel.  The
\* counter len is left as it is.
Evict(m, a, h, l) ==
    LET last_entry == m[tail].prev IN
    IF last_entry = None THEN Outcome("panic", m, a, h, l, RetNone)
    ELSE IF last_entry \notin a THEN Outcome("ub", m, a, h, l, RetNone)
    ELSE IF m[last_entry].key = None \/ m[last_entry].value = None
              \/ m[last_entry].prev = None
         THEN Outcome("panic", m, a, h, l, RetNone)
    ELSE
    LET key       == m[last_entry].key
        value     == m[last_entry].value
        last_prev == m[last_entry].prev
        m1 == [m EXCEPT ![tail].prev = last_prev]
    IN  IF last_prev \notin a THEN Outcome("ub", m1, a, h, l, RetNone)
        ELSE
        LET m2 == [m1 EXCEPT ![last_prev].next = tail]
            h1 == [h EXCEPT ![key] = None]
        IN  Outcome("ok", Free(m2, last_entry), a \ {last_entry}, h1, l,
                    SomePair(key, value))

\* Lines 91-102: the node is linked in behind the head sentinel and entered
\* in the index.  It is not taken out of the place it may already have.
Splice(m, a, h, l, key, node) ==
    LET m1 == [m EXCEPT ![node].prev = head]
        m2 == [m1 EXCEPT ![node].next = m1[head].next]
        head_next == m2[head].next
    IN  IF head_next = None THEN Outcome("panic", m2, a, h, l, RetNone)
        ELSE IF head_next \notin a THEN Outcome("ub", m2, a, h, l, RetNone)
        ELSE
        LET m3 == [m2 EXCEPT ![head_next].prev = node]
            m4 == [m3 EXCEPT ![head].next = node]
            h1 == [h EXCEPT ![key] = node]
        IN  Outcome("ok", m4, a, h1, l, RetNone)

\* The whole of add; fresh is the address Box::new returns for a new key.
add(key, value, fresh) ==
    LET hit == hashmap[key] # None
        v   == hashmap[key]
    IN  IF hit /\ v \notin alive
        THEN Outcome("ub", mem, alive, hashmap, len, RetNone)
        ELSE
        LET node == IF hit THEN v ELSE fresh
            m0   == IF hit THEN [mem EXCEPT ![v].value = value]
                           ELSE [mem EXCEPT ![fresh] = Node(key, value, None, None)]
            a0   == IF hit THEN alive ELSE alive \cup {fresh}
            l0   == IF hit THEN len ELSE len + 1
            s    == Splice(m0, a0, hashmap, l0, key, node)
        IN  IF s.st # "ok" THEN s
            ELSE IF s.len > cap THEN Evict(s.mem, s.alive, s.hashmap, s.len)
            ELSE s

\* --------------------------------------------------------- LRUCache::remove
\* An Option<V> as a return value.
Opt(v) == IF v = None THEN RetNone ELSE Some(v)

\* Lines 127-139: the entry found in the index (and already taken out of it)
\* is unlinked and released, and len is decremented.
RemoveFound(key) ==
    LET value == hashmap[key]
        h1    == [hashmap EXCEPT ![key] = None]
    IN  IF value \notin alive THEN Outcome("ub", mem, alive, h1, len, RetNone)
        ELSE IF mem[value].prev = None \/ mem[value].next = None
             THEN Outcome("panic", mem, alive, h1, len, RetNone)
        ELSE
        LET prev == mem[value].prev
            next == mem[value].next
        IN  IF prev \notin alive THEN Outcome("ub", mem, alive, h1, len, RetNone)
            ELSE
            LET m1 == [mem EXCEPT ![prev].next = next]
            IN  IF next \notin alive THEN Outcome("ub", m1, alive, h1, len, RetNone)
                ELSE
                LET m2  == [m1 EXCEPT ![next].prev = prev]
                    val == m2[value].value
                    m3  == Free(m2, value)
                    a1  == alive \ {value}
                IN  \* usize subtraction: a debug build panics at 0
                    IF len = 0 THEN Outcome("panic", m3, a1, h1, len, RetNone)
                    ELSE Outcome("ok", m3, a1, h1, len - 1, Opt(val))

\* remove with the decrement of len moved out of the branch of the found key.
remove_counting_absent(key) ==
    IF hashmap[key] = None
    THEN IF len = 0 THEN Outcome("panic", mem, alive, hashmap, len, RetNone)
         ELSE Outcome("ok", mem, alive, hashmap, len - 1, RetNone)
    ELSE RemoveFound(key)

remove(key) ==
    IF hashmap[key] = None THEN Outcome("ok", mem, alive, hashmap, len, RetNone)
    ELSE RemoveFound(key)

\* ------------------------------------------------------------ LRUCache::get
get(key) ==
    LET value == hashmap[key] IN
    IF value = None THEN Outcome("ok", mem, alive, hashmap, len, RetNone)
    ELSE IF value \notin alive THEN Outcome("ub", mem, alive, hashmap, len, RetNone)
    ELSE IF mem[value].prev = None \/ mem[value].next = None
         THEN Outcome("panic", mem, alive, hashmap, len, RetNone)
    ELSE
    LET prev == mem[value].prev
        next == mem[value].next
    IN  IF prev \notin alive THEN Outcome("ub", mem, alive, hashmap, len, RetNone)
        ELSE
        LET m1 == [mem EXCEPT ![prev].next = next]
        IN  IF next \notin alive THEN Outcome("ub", m1, alive, hashmap, len, RetNone)
            ELSE
            LET m2 == [m1 EXCEPT ![next].prev = prev]
                m3 == [m2 EXCEPT ![value].prev = head]
                m4 == [m3 EXCEPT ![value].next = m3[head].next]
                head_next == m4[head].next
            IN  IF head_next = None
                THEN Outcome("panic", m4, alive, hashmap, len, RetNone)
                ELSE IF head_next \notin alive
                THEN Outcome("ub", m4, alive, hashmap, len, RetNone)
                ELSE
                LET m5 == [m4 EXCEPT ![head_next].prev = value]
                    m6 == [m5 EXCEPT ![head].next = value]
                IN  Outcome("ok", m6, alive, hashmap, len, Opt(m6[value].value))

\* ----------------------------------------------------------- LRUCache::peek
\* peek that promotes the entry, as get does.
peek_promoting(key) == get(key)

peek(key) ==
    LET value == hashmap[key] IN
    IF value = None THEN Outcome("ok", mem, alive, hashmap, len, RetNone)
    ELSE IF value \notin alive THEN Outcome("ub", mem, alive, hashmap, len, RetNone)
    ELSE Outcome("ok", mem, alive, hashmap, len, Opt(mem[value].value))

\* ------------------------------------------ LRUCache::get_first / get_last
get_first ==
    LET next == mem[head].next IN
    IF next = None THEN Outcome("panic", mem, alive, hashmap, len, RetNone)
    ELSE IF next \notin alive THEN Outcome("ub", mem, alive, hashmap, len, RetNone)
    ELSE IF mem[next].value = None
         THEN Outcome("panic", mem, alive, hashmap, len, RetNone)
    ELSE Outcome("ok", mem, alive, hashmap, len, Some(mem[next].value))

get_last ==
    LET prev == mem[tail].prev IN
    IF prev = None THEN Outcome("panic", mem, alive, hashmap, len, RetNone)
    ELSE IF prev \notin alive THEN Outcome("ub", mem, alive, hashmap, len, RetNone)
    ELSE IF mem[prev].value = None
         THEN Outcome("panic", mem, alive, hashmap, len, RetNone)
    ELSE Outcome("ok", mem, alive, hashmap, len, Some(mem[prev].value))

\* ------------------------------------------------------------ LRUCache::len
len_ == Outcome("ok", mem, alive, hashmap, len, Some(len))

\* ------------------------------------------------------ Drop for LRUCache
\* The loop of drop from the node curr on: a node whose next is absent ends
\* the loop without being released; rel lists the nodes released so far.
RECURSIVE DropLoop(_, _, _, _)
DropLoop(m, a, curr, rel) ==
    IF curr \notin a THEN [st |-> "ub", mem |-> m, alive |-> a, released |-> rel]
    ELSE LET next == m[curr].next
         IN  IF next = None
             THEN [st |-> "ok", mem |-> m, alive |-> a, released |-> rel]
             ELSE DropLoop(Free(m, curr), a \ {curr}, next, Append(rel, curr))

drop == DropLoop(mem, alive, head, <<>>)

\* ------------------------------------------------------------------ history
\* s without the key k.
Without(s, k) == SelectSeq(s, LAMBDA x : x # k)

\* The keys of the index after a call, most recently touched first: a touched
\* key moves to the front, the keys that left the index leave the history.
Touch(s, k, h) == SelectSeq(<<k>> \o Without(s, k), LAMBDA x : h[x] # None)

\* ----------------------------------------------------------------- actions
Call(name, key, value) ==
    [name |-> name, key |-> key, value |-> value,
     hit |-> IF key = None THEN FALSE ELSE hashmap[key] # None]

\* What a call may return once it has dereferenced a released node.
AnyRet(name) ==
    IF name = "add" THEN {RetNone} \cup {SomePair(k, v) : k \in Keys, v \in Values}
    ELSE IF name = "len" THEN {Some(n) : n \in 0..MaxCalls}
    ELSE {RetNone} \cup {Some(v) : v \in Values}

\* The cache after a call that ended as o: a panic and a use of a released
\* node both end the run, the latter with any return value.
Apply(o, call, t) ==
    /\ pc = "run"
    /\ calls < MaxCalls
    /\ calls' = calls + 1
    /\ mem' = o.mem
    /\ alive' = o.alive
    /\ hashmap' = o.hashmap
    /\ len' = o.len
    /\ lastOp' = call
    /\ pc' = IF o.st = "ok" THEN "run" ELSE IF o.st = "panic" THEN "panicked" ELSE "ub"
    /\ IF o.st = "ub" THEN ret' \in AnyRet(call.name) ELSE ret' = o.ret
    /\ touched' = IF o.st = "ok" THEN t ELSE touched
    /\ UNCHANGED <<cap, head, tail, released>>

\* The released nodes that some pointer of the cache still designates.
Dangling ==
    {n \in NodeIds \ alive :
        \/ \E a \in alive : mem[a].prev = n \/ mem[a].next = n
        \/ \E k \in Keys : hashmap[k] = n}

\* Box::new returns a node that no pointer designates yet.  A node id names
\* an allocation, so the id of a released node is not given out again while
\* a pointer to that node is left; the ids nothing refers to are all alike,
\* and the one chosen is that of the key if it can be, else the lowest.
FreeIds(key) ==
    LET unused == (NodeIds \ alive) \ Dangling
    IN  IF key + 1 \in unused THEN {key + 1}
        ELSE {n \in unused : \A o \in unused : n <= o}

\* The values a caller passes.  The code never inspects a value, so the
\* values that the cache does not hold are all alike: the lowest stands for them.
Inputs ==
    LET held   == {mem[n].value : n \in alive} \cap Values
        others == Values \ held
    IN  held \cup {v \in others : \A w \in others : v <= w}

Add ==
    \E key \in Keys, value \in Inputs :
        \E fresh \in (IF hashmap[key] # None THEN {None} ELSE FreeIds(key)) :
               LET o == add(key, value, fresh)
               IN  Apply(o, Call("add", key, value), Touch(touched, key, o.hashmap))

Remove ==
    \E key \in Keys :
        LET o == remove(key)
        IN  Apply(o, Call("remove", key, None), Without(touched, key))

Get ==
    \E key \in Keys :
        LET o == get(key)
        IN  Apply(o, Call("get", key, None),
                  IF hashmap[key] # None THEN Touch(touched, key, o.hashmap) ELSE touched)

Peek ==
    \E key \in Keys : Apply(peek(key), Call("peek", key, None), touched)

GetFirst == Apply(get_first, Call("get_first", None, None), touched)

GetLast == Apply(get_last, Call("get_last", None, None), touched)

Length == Apply(len_, Call("len", None, None), touched)

\* The cache goes out of scope.
Drop ==
    LET o == drop
    IN  /\ pc = "run"
        /\ mem' = o.mem
        /\ alive' = o.alive
        /\ released' = o.released
        /\ pc' = IF o.st = "ok" THEN "dropped" ELSE "ub"
        /\ lastOp' = Call("drop", None, None)
        /\ ret' = RetNone
        /\ UNCHANGED <<hashmap, cap, len, head, tail, calls, touched>>

Init ==
    /\ \E c \in Caps : new(c)
    /\ pc = "run"
    /\ ret = RetNone
    /\ lastOp = Call("new", None, None)
    /\ calls = 0
    /\ released = <<>>
    /\ touched = <<>>

Next == Add \/ Remove \/ Get \/ Peek \/ GetFirst \/ GetLast \/ Length \/ Drop

Spec == Init /\ [][Next]_vars

\* The allocator is never short of a node id.
AllocOk == pc = "run" => \A key \in Keys : hashmap[key] = None => FreeIds(key) # {}

\* ------------------------------------------------------------ observations
\* The nodes met by following next links from node n, up to the tail
\* sentinel, a released node, or a node met before.
RECURSIVE Walk(_, _, _, _)
Walk(m, a, n, seen) ==
    IF n = None \/ n \notin a \/ n = tail \/ n \in seen THEN <<>>
    ELSE <<n>> \o Walk(m, a, m[n].next, seen \cup {n})

\* The entry nodes on the next chain of the head sentinel, first to last.
Chain == Walk(mem, alive, mem[head].next, {head})

\* Their keys: the recency order as the list holds it.
KeyOrder == [i \in 1..Len(Chain) |-> mem[Chain[i]].key]

\* The keys for which a lookup returns Some.
Found == {k \in Keys : peek(k).st = "ok" /\ peek(k).ret # RetNone}

\* The fields of the cache (all but the bookkeeping of the run).
cache == <<mem, alive, hashmap, cap, len, head, tail>>

\* The step is a call of the operation name.
Called(name) == pc = "run" /\ lastOp'.name = name

\* The links of the living nodes that designate node n.
LinksTo(m, a, n) == {x \in a : m[x].prev = n \/ m[x].next = n}

\* ------------------------------------------------------------------ claims
\* C1: after every call on a cache built by new(capacity), the value that
\* len() returns is at most the capacity.
C1_LenWithinCapacity == pc = "run" => len_.ret[1] <= cap

\* C2: after every public operation the len counter equals the number of
\* entries of the index, which equals the number of entry nodes reachable from
\* the head sentinel by next links, which equals the number of keys for which
\* a lookup returns Some.
C2_CountsAgree ==
    pc = "run" =>
        /\ len = Cardinality(LiveKeys(hashmap))
        /\ Cardinality(LiveKeys(hashmap)) = Len(Chain)
        /\ Len(Chain) = Cardinality(Found)

\* C3: add of a new key to a cache that holds exactly capacity entries evicts
\* exactly one entry and returns it: the key whose most recent touch (add or
\* get) is the oldest among the entries held before the call, with the value
\* last stored for it; afterwards that key is absent and all others are present.
C3_EvictsLeastRecentlyTouched ==
    [][(/\ Called("add")
        /\ ~lastOp'.hit
        /\ cap >= 1
        /\ Cardinality(LiveKeys(hashmap)) = cap)
       => LET victim == touched[Len(touched)]
          IN  /\ pc' = "run"
              /\ ret' = SomePair(victim, mem[hashmap[victim]].value)
              /\ LiveKeys(hashmap') =
                     (LiveKeys(hashmap) \ {victim}) \cup {lastOp'.key}]_vars

\* C4: in every reachable state, add of a new key to a cache that holds fewer
\* than capacity entries returns None and removes no entry: every key present
\* before the call, and the new key, is present after it.
C4_AddBelowCapacityKeepsAll ==
    [][(/\ Called("add")
        /\ ~lastOp'.hit
        /\ Cardinality(LiveKeys(hashmap)) < cap)
       => /\ pc' = "run"
          /\ ret' = RetNone
          /\ LiveKeys(hashmap') = LiveKeys(hashmap) \cup {lastOp'.key}]_vars

\* C5: in every reachable state, add of a key that is in the cache returns
\* None, replaces the stored value, and leaves len() and the set of keys of
\* the cache unchanged (nothing is evicted).
C5_UpdateEvictsNothing ==
    [][(Called("add") /\ lastOp'.hit)
       => /\ pc' = "run"
          /\ ret' = RetNone
          /\ len' = len
          /\ LiveKeys(hashmap') = LiveKeys(hashmap)
          /\ \A k \in Keys, v \in Values :
                 (lastOp'.key = k /\ lastOp'.value = v) => peek(k)'.ret = Some(v)]_vars

\* C6: add of a key that is in the cache promotes it: its node is unlinked
\* (its former neighbours are linked to each other) and then spliced in right
\* behind the head sentinel, so that the key is the most recently used entry,
\* get_first() returns the new value, and the order of the other entries is
\* unchanged.
C6_UpdatePromotes ==
    [][(Called("add") /\ lastOp'.hit)
       => LET n == hashmap[lastOp'.key]
              p == mem[n].prev
              q == mem[n].next
          IN  /\ pc' = "run"
              /\ mem'[head].next = n
              /\ get_first'.ret = Some(lastOp'.value)
              /\ KeyOrder' = <<lastOp'.key>> \o Without(KeyOrder, lastOp'.key)
              /\ IF p = head
                 THEN mem'[n].next = q /\ mem'[q].prev = n
                 ELSE mem'[p].next = q /\ mem'[q].prev = p]_vars

\* C7: get of a key that is in the cache returns Some of its stored value and
\* makes it the most recently used entry (get_first() then returns its value),
\* leaving the order of the other entries, the set of keys, every stored value
\* and len() unchanged.
C7_GetPromotes ==
    [][(Called("get") /\ lastOp'.hit)
       => LET n == hashmap[lastOp'.key]
          IN  /\ pc' = "run"
              /\ ret' = Some(mem[n].value)
              /\ get_first'.ret = Some(mem[n].value)
              /\ KeyOrder' = <<lastOp'.key>> \o Without(KeyOrder, lastOp'.key)
              /\ hashmap' = hashmap
              /\ \A x \in NodeIds : mem'[x].key = mem[x].key /\ mem'[x].value = mem[x].value
              /\ len' = len]_vars

\* C8: peek, of a present or an absent key and in every reachable state,
\* changes nothing: links, index, stored values and len are the same before
\* and after, and so are the results of get_first() and get_last(); for a
\* present key it returns Some of the stored value.
C8_PeekChangesNothing ==
    [][Called("peek")
       => /\ pc' = "run"
          /\ UNCHANGED cache
          /\ get_first' = get_first
          /\ get_last' = get_last
          /\ lastOp'.hit => ret' = Some(mem[hashmap[lastOp'.key]].value)]_vars

\* A peek of a present key that is not the most recently used one returned
\* its value, which is not that of the most recently used entry.
C8_Witness ==
    /\ pc = "run"
    /\ lastOp.name = "peek"
    /\ lastOp.hit
    /\ Cardinality(LiveKeys(hashmap)) >= 2
    /\ mem[head].next # hashmap[lastOp.key]
    /\ mem[mem[head].next].value # mem[hashmap[lastOp.key]].value
    /\ ret = Some(mem[hashmap[lastOp.key]].value)

\* C9: remove of a key that is in the cache returns Some of its value, unlinks
\* its node so that the former neighbours point at each other, deletes the key
\* from the index and decrements len by one; afterwards get and peek of the
\* key return None and the order and values of the other entries are unchanged.
C9_RemoveUnlinks ==
    [][(Called("remove") /\ lastOp'.hit)
       => LET n == hashmap[lastOp'.key]
              p == mem[n].prev
              q == mem[n].next
          IN  /\ pc' = "run"
              /\ ret' = Some(mem[n].value)
              /\ mem'[p].next = q /\ mem'[q].prev = p
              /\ LinksTo(mem', alive', n) = {}
              /\ hashmap' = [hashmap EXCEPT ![lastOp'.key] = None]
              /\ len' = len - 1
              /\ \A k \in Keys :
                     lastOp'.key = k => get(k)'.ret = RetNone /\ peek(k)'.ret = RetNone
              /\ KeyOrder' = Without(KeyOrder, lastOp'.key)
              /\ \A x \in alive' : mem'[x].key = mem[x].key /\ mem'[x].value = mem[x].value]_vars

\* C10: get, peek and remove of a key that is not in the cache return None,
\* never fail, and leave the whole cache unchanged: links, index, stored
\* values and len.
C10_AbsentKeyIsNoOp ==
    [][(/\ pc = "run"
        /\ lastOp'.name \in {"get", "peek", "remove"}
        /\ ~lastOp'.hit)
       => /\ pc' = "run"
          /\ ret' = RetNone
          /\ UNCHANGED cache]_vars

\* A remove of an absent key returned None on a cache that holds entries and
\* has evicted before.
C10_Witness ==
    /\ pc = "run"
    /\ lastOp.name = "remove"
    /\ ~lastOp.hit
    /\ ret = RetNone
    /\ LiveKeys(hashmap) # {}
    /\ len > Cardinality(LiveKeys(hashmap))

\* C11: round trip: in every reachable state, add(k, v) followed immediately
\* by get(k) returns Some(v).  Stated for the caches of capacity 1 or more (a
\* cache of capacity 0 is meant to retain nothing).
C11_AddThenGet ==
    [][(/\ pc = "run"
        /\ cap >= 1
        /\ lastOp.name = "add"
        /\ lastOp'.name = "get"
        /\ lastOp'.key = lastOp.key)
       => pc' = "run" /\ ret' = Some(lastOp.value)]_vars

\* C12: whenever the cache holds an entry, get_first() returns the value of
\* the entry touched most recently by add or get, get_last() returns the value
\* of the entry whose last touch is the oldest, and both leave the cache as it
\* is.
C12_FirstAndLast ==
    [][(/\ pc = "run"
        /\ lastOp'.name \in {"get_first", "get_last"}
        /\ touched # <<>>)
       => LET k == IF lastOp'.name = "get_first" THEN touched[1]
                   ELSE touched[Len(touched)]
          IN  /\ pc' = "run"
              /\ ret' = peek(k).ret
              /\ UNCHANGED cache]_vars

\* C13: a cache built by new(0) retains nothing: every add(k, v) returns
\* Some((k, v)), and after every operation the index is empty, the next of the
\* head sentinel is the tail sentinel, and get and peek of every key return None.
C13_ZeroCapacityRetainsNothing ==
    cap = 0 =>
        /\ pc # "ub"
        /\ pc \in {"run", "panicked"} =>
               /\ LiveKeys(hashmap) = {}
               /\ mem[head].next = tail
               /\ \A k \in Keys : get(k).ret = RetNone /\ peek(k).ret = RetNone
               /\ lastOp.name = "add" => ret = SomePair(lastOp.key, lastOp.value)

\* A cache of capacity 0 returned the pair of an add that was not its first.
C13_Witness ==
    /\ cap = 0
    /\ pc = "run"
    /\ lastOp.name = "add"
    /\ len >= 2
    /\ ret = SomePair(lastOp.key, lastOp.value)

\* C14: whenever the cache holds no entry, get_first() and get_last() return
\* no value: the call fails with a panic (the sentinel that head.next or
\* tail.prev designates has no value) and does not modify the cache.
C14_EmptyCachePanics ==
    [][(/\ pc = "run"
        /\ lastOp'.name \in {"get_first", "get_last"}
        /\ LiveKeys(hashmap) = {})
       => pc' = "panicked" /\ UNCHANGED cache]_vars

\* C15: when the cache is dropped, every node it still owns (the two
\* sentinels and the node of every entry) is released exactly once, and the
\* nodes released before by an eviction or a remove are not released again.
C15_DropReleasesAllOnce ==
    [][Called("drop")
       => /\ pc' = "dropped"
          /\ {released'[i] : i \in 1..Len(released')} = alive
          /\ Len(released') = Cardinality(alive)
          /\ alive' = {}]_vars

\* C16: after every public operation the next links from the head sentinel
\* reach the tail sentinel and visit in between exactly the entries of the
\* cache, each once, from the most to the least recently used; no node comes
\* twice and the entry nodes form no cycle.
C16_NextChain ==
    pc = "run" =>
        LET last == IF Chain = <<>> THEN head ELSE Chain[Len(Chain)]
        IN  /\ mem[last].next = tail
            /\ KeyOrder = touched

\* C17: after every public operation the prev links mirror the next links:
\* the prev of the next of every node of the chain but the tail sentinel is
\* that node, and the prev of the tail sentinel is the least recently used
\* entry, or the head sentinel when the cache is empty.
C17_PrevMirrorsNext ==
    pc = "run" =>
        /\ \A n \in {head} \cup {Chain[i] : i \in 1..Len(Chain)} :
               mem[n].next \in alive /\ mem[mem[n].next].prev = n
        /\ mem[tail].prev = IF touched = <<>> THEN head
                            ELSE hashmap[touched[Len(touched)]]

\* C18: after every public operation the index maps each key of the cache to
\* one node that is not released, stores that key and its current value, and
\* is linked into the chain between the sentinels; no key of an evicted or
\* removed entry remains in the index.
C18_IndexDesignatesLinkedNodes ==
    pc = "run" =>
        /\ \A k \in LiveKeys(hashmap) :
               /\ hashmap[k] \in alive
               /\ mem[hashmap[k]].key = k
               /\ \E i \in 1..Len(Chain) : Chain[i] = hashmap[k]
        /\ (lastOp.name = "add" /\ hashmap[lastOp.key] # None)
               => mem[hashmap[lastOp.key]].value = lastOp.value
        /\ (lastOp.name = "add" /\ Len(ret) = 2) => hashmap[ret[1]] = None
        /\ lastOp.name = "remove" => hashmap[lastOp.key] = None

\* C19: no operation (add, get, peek, remove, get_first, get_last, drop)
\* reads or writes a released node, and after every operation no released node
\* is designated by the index, by head.next, by tail.prev or by a link of a
\* node that the cache still owns.
C19_NoReleasedNodeInUse ==
    /\ pc # "ub"
    /\ pc = "run" => Dangling = {}

\* C20: the loop of drop, which follows the next links from the head
\* sentinel, reaches a node without next and returns after at most (number of
\* entries + 2) iterations.
C20_DropTerminates ==
    [][Called("drop")
       => /\ pc' = "dropped"
          /\ Len(released') + 1 <= Cardinality(LiveKeys(hashmap)) + 2]_vars

====
